---- MODULE Spec2Model ----
(***************************************************************************)
(* A model of the permission-gated hierarchical store (src/src/store.ts):  *)
(* a heap of Store nodes, each with a default policy, a subtype whose      *)
(* fields may carry @Restrict annotations, and a data record; and the      *)
(* operations read, write, writeEntries and entries, translated statement  *)
(* by statement from the source.  A thrown error is a result record whose  *)
(* err field is set; the heap it carries holds every assignment made       *)
(* before the throw, as in the source.  evals counts, for each field, the  *)
(* invocations of the function it holds since the field was last written   *)
(* by write: the observable side effect of a producer.                     *)
(*                                                                         *)
(* Strings (paths, field names, object keys) are sequences of tokens; the  *)
(* token ":" is the separator character and every other token is a        *)
(* separator-free piece of text.  The empty string is <<>>.                *)
(***************************************************************************)
EXTENDS Integers, Sequences, FiniteSets, TLC

VARIABLES heap, evals, last, prev, nops

vars == <<heap, evals, last, prev, nops>>

(***************************************************************************)
(* Bounds of the exploration.                                              *)
(***************************************************************************)
MaxOps == 2
MaxDeepOps == 3
MaxPermOps == 2
MaxGuardOps == 1
MaxTreeOps == 3
MaxWriteOps == 2
MaxNodes == 5

(***************************************************************************)
(* JavaScript values.  Every value is a record [t, v]: t is the kind, v a  *)
(* number, an index into the table of its kind, or a node of the heap.     *)
(***************************************************************************)
Undefined == [t |-> "undefined", v |-> 0]
Null == [t |-> "null", v |-> 0]
Num(n) == [t |-> "number", v |-> n]
Str(n) == [t |-> "string", v |-> n]
Sym == [t |-> "symbol", v |-> 0]
Arr(i) == [t |-> "array", v |-> i]
Obj(i) == [t |-> "object", v |-> i]
Fn(i) == [t |-> "function", v |-> i]
StoreRef(n) == [t |-> "store", v |-> n]

\* Field names used as inputs.
kUser == <<"user">>
kName == <<"name">>
kCred == <<"getCredentials">>
kUsername == <<"username">>
kX == <<"x">>
kEmpty == <<>>

\* The functions a caller may hand to the store: length is the number of
\* declared parameters; body "newStore" constructs a Store of the given
\* policy, calls writeEntries(arg) on it and returns it (adminStore.ts:13-17);
\* body "return" returns arg.
FnTable ==
  << [length |-> 0, body |-> "newStore", policy |-> "rw", arg |-> Obj(1)],
     [length |-> 0, body |-> "return", policy |-> "rw", arg |-> Num(1)],
     [length |-> 0, body |-> "return", policy |-> "rw", arg |-> Sym],
     [length |-> 1, body |-> "return", policy |-> "rw", arg |-> Num(1)],
     [length |-> 0, body |-> "newStore", policy |-> "none", arg |-> Obj(4)] >>

FnIds == 1..Len(FnTable)

\* Objects that are not arrays and not Stores: proto "Object" is an object
\* literal, proto "Class" an instance of some other class.  entries is
\* Object.entries(o): the own enumerable properties in insertion order.
ObjTable ==
  << [proto |-> "Object", entries |-> << [k |-> kUsername, v |-> Str(1)] >>],
     [proto |-> "Object", entries |-> << [k |-> <<"x", ":", "x">>, v |-> Num(1)] >>],
     [proto |-> "Class", entries |-> << [k |-> kX, v |-> Fn(2)] >>],
     [proto |-> "Class", entries |-> << >>],
     [proto |-> "Object", entries |-> << [k |-> kX, v |-> Obj(1)] >>],
     [proto |-> "Object",
      entries |-> << [k |-> kX, v |-> Num(1)],
                     [k |-> <<"x", ":", "x">>, v |-> Num(2)],
                     [k |-> kUsername, v |-> Str(1)] >>] >>

\* Arrays: the elements in order.
ArrTable ==
  << << Num(1), Null >>,
     << Sym >> >>

(***************************************************************************)
(* Strings.                                                                *)
(***************************************************************************)
Sep == ":"

\* String.prototype.split(':'): the pieces between separators; never empty.
RECURSIVE SplitFrom(_, _, _)
SplitFrom(s, i, cur) ==
  IF i > Len(s) THEN << cur >>
  ELSE IF s[i] = Sep THEN << cur >> \o SplitFrom(s, i + 1, << >>)
  ELSE SplitFrom(s, i + 1, Append(cur, s[i]))

Split(s) == SplitFrom(s, 1, << >>)

\* Array.prototype.join(':').
RECURSIVE Join(_)
Join(segs) ==
  IF Len(segs) = 0 THEN << >>
  ELSE IF Len(segs) = 1 THEN segs[1]
  ELSE segs[1] \o << Sep >> \o Join(Tail(segs))

(***************************************************************************)
(* json-types: isJSONPrimitive, isJSONValue.                               *)
(***************************************************************************)
isJSONPrimitive(x) == x.t \in {"null", "string", "number", "boolean"}

\* Object.values(x) for an object that is not an array: a Store instance has
\* the own properties data and defaultPolicy (a string), and data is an
\* object whose values are the fields.
RECURSIVE isJSONValue(_, _)
isJSONValue(h, x) ==
  IF isJSONPrimitive(x) THEN TRUE
  ELSE IF x.t = "array"
    THEN \A i \in 1..Len(ArrTable[x.v]) : isJSONValue(h, ArrTable[x.v][i])
  ELSE IF x.t = "object"
    THEN \A i \in 1..Len(ObjTable[x.v].entries) :
           isJSONValue(h, ObjTable[x.v].entries[i].v)
  ELSE IF x.t = "store"
    THEN \A k \in DOMAIN h[x.v].data : isJSONValue(h, h[x.v].data[k])
  ELSE FALSE

(***************************************************************************)
(* restrict.ts and adminStore.ts: the declared permissions.                *)
(***************************************************************************)
Permissions == {"r", "w", "rw", "none"}

\* Reflect.getMetadata(META_KEY, target, key): "undefined" when none declared.
getPermissionMetadata(subtype, key) ==
  IF subtype = "AdminStore" /\ key = kUser THEN "r"
  ELSE IF subtype = "AdminStore" /\ key = kName THEN "none"
  ELSE IF subtype = "AdminStore" /\ key = kCred THEN "rw"
  ELSE "undefined"

(***************************************************************************)
(* Store: permissions and fields.  h is the heap: a sequence of nodes      *)
(* [defaultPolicy, subtype, data], a node's identity being its index.      *)
(***************************************************************************)
\* A variant that never consults the declared permissions.
getPermissionForKeyDefaultOnly(h, n, key) == h[n].defaultPolicy

getPermissionForKey(h, n, key) ==
  LET perm == getPermissionMetadata(h[n].subtype, key)
  IN  IF perm # "undefined" THEN perm ELSE h[n].defaultPolicy

\* A variant that checks the permission of the fields that exist only.
allowedToReadExisting(h, n, key) ==
  LET p == getPermissionForKey(h, n, key)
  IN  key \notin DOMAIN h[n].data \/ p = "r" \/ p = "rw"

allowedToRead(h, n, key) ==
  LET p == getPermissionForKey(h, n, key) IN p = "r" \/ p = "rw"

\* A variant that lets every key be written.
allowedToWriteAlways(h, n, key) == TRUE

\* A variant copied from allowedToRead without changing the policies.
allowedToWriteAsRead(h, n, key) ==
  LET p == getPermissionForKey(h, n, key) IN p = "r" \/ p = "rw"

allowedToWrite(h, n, key) ==
  LET p == getPermissionForKey(h, n, key) IN p = "w" \/ p = "rw"

getField(h, n, key) ==
  IF key \in DOMAIN h[n].data THEN h[n].data[key] ELSE Undefined

isPlainJSONObject(x) == x.t = "object"

isStoreValue(h, x) ==
  IF x.t = "undefined" THEN TRUE
  ELSE IF x.t = "store" THEN TRUE
  ELSE IF x.t = "function" THEN TRUE
  ELSE IF x.t = "array"
    THEN \A i \in 1..Len(ArrTable[x.v]) : isJSONValue(h, ArrTable[x.v][i])
  ELSE IF x.t = "object" THEN isJSONValue(h, x)
  ELSE isJSONPrimitive(x)

(***************************************************************************)
(* Errors and results.                                                     *)
(***************************************************************************)
NoError == [name |-> "none", kind |-> "", at |-> << >>]
PermissionDeniedError(kind, key) ==
  [name |-> "PermissionDeniedError", kind |-> kind, at |-> key]
PathTraversalError(path) ==
  [name |-> "PathTraversalError", kind |-> "", at |-> path]
InvalidValueError == [name |-> "InvalidValueError", kind |-> "", at |-> << >>]
InvalidPathError == [name |-> "InvalidPathError", kind |-> "", at |-> << >>]

\* A machine state m is [heap, evals]; a result is [m, err, val].
Ok(m, val) == [m |-> m, err |-> NoError, val |-> val]
Throw(m, err) == [m |-> m, err |-> err, val |-> Undefined]
Failed(r) == r.err.name # "none"

\* new Store(policy): the node is appended to the heap.
NewStore(m, policy) ==
  [m EXCEPT !.heap = Append(m.heap,
      [defaultPolicy |-> policy, subtype |-> "Store", data |-> << >>])]

SetData(d, key, value) ==
  [k \in DOMAIN d \cup {key} |-> IF k = key THEN value ELSE d[k]]

\* A variant that stores the value without asking isStoreValue.
setFieldUnchecked(m, n, key, value) ==
  Ok([m EXCEPT !.heap[n].data = SetData(m.heap[n].data, key, value)], Undefined)

setField(m, n, key, value) ==
  IF ~isStoreValue(m.heap, value) THEN Throw(m, InvalidValueError)
  ELSE Ok([m EXCEPT !.heap[n].data = SetData(m.heap[n].data, key, value)],
          Undefined)

\* The invocation counter of field key of node n.
Evals(ev, n, key) == IF << n, key >> \in DOMAIN ev THEN ev[<< n, key >>] ELSE 0

Count(m, n, key) ==
  [m EXCEPT !.evals = [f \in DOMAIN m.evals \cup {<< n, key >>} |->
      IF f = << n, key >> THEN Evals(m.evals, n, key) + 1 ELSE m.evals[f]]]

Uncount(m, n, key) ==
  [m EXCEPT !.evals = [f \in DOMAIN m.evals \ {<< n, key >>} |-> m.evals[f]]]

(***************************************************************************)
(* Store: traversal.  The operators below call one another as the methods  *)
(* of the source do.                                                       *)
(***************************************************************************)
RECURSIVE Call(_, _, _)
RECURSIVE Evaluate(_, _, _)
RECURSIVE Promote(_, _, _, _)
RECURSIVE convertPlainObjectToStore(_, _)
RECURSIVE WriteEntriesFrom(_, _, _, _)
RECURSIVE write(_, _, _, _)
RECURSIVE EnsureFrom(_, _, _, _)
RECURSIVE readSegments(_, _, _, _)

\* Sequencing: the statements K after a call that returned r; a call that
\* threw ends the method with the same error.
Bind(r, K(_)) == IF Failed(r) THEN r ELSE K(r)

\* value.call(ctx) for the function FnTable[f].
Call(m, f, ctx) ==
  IF FnTable[f].body = "newStore"
    THEN Bind(WriteEntriesFrom(NewStore(m, FnTable[f].policy), Len(m.heap) + 1,
                               ObjTable[FnTable[f].arg.v].entries, 1),
              LAMBDA w : Ok(w.m, StoreRef(Len(m.heap) + 1)))
    ELSE Ok(m, FnTable[f].arg)

\* let value = ctx.getField(key);
\* if (typeof value === 'function') { value = value.call(ctx); ctx.setField(key, value); }
Evaluate(m, ctx, key) ==
  IF getField(m.heap, ctx, key).t # "function"
    THEN Ok(m, getField(m.heap, ctx, key))
    ELSE Bind(Call(Count(m, ctx, key), getField(m.heap, ctx, key).v, ctx),
              LAMBDA c : Bind(setField(c.m, ctx, key, c.val),
                              LAMBDA s : Ok(s.m, c.val)))

\* const s = this.convertPlainObjectToStore(value); ctx.setField(key, s);
Promote(m, ctx, key, value) ==
  Bind(convertPlainObjectToStore(m, value),
       LAMBDA c : Bind(setField(c.m, ctx, key, c.val),
                       LAMBDA s : Ok(s.m, c.val)))

convertPlainObjectToStore(m, obj) ==
  Bind(WriteEntriesFrom(NewStore(m, "rw"), Len(m.heap) + 1,
                        ObjTable[obj.v].entries, 1),
       LAMBDA w : Ok(w.m, StoreRef(Len(m.heap) + 1)))

\* A variant that goes on with the next key when a write has thrown.
RECURSIVE WriteEntriesPastErrors(_, _, _, _)
WriteEntriesPastErrors(m, this, ents, i) ==
  IF i > Len(ents) THEN Ok(m, Undefined)
  ELSE WriteEntriesPastErrors(write(m, this, ents[i].k, ents[i].v).m,
                              this, ents, i + 1)

\* for (const [k, v] of Object.entries(entries)) this.write(k, v);
WriteEntriesFrom(m, this, ents, i) ==
  IF i > Len(ents) THEN Ok(m, Undefined)
  ELSE Bind(write(m, this, ents[i].k, ents[i].v),
            LAMBDA w : WriteEntriesFrom(w.m, this, ents, i + 1))

writeEntries(m, this, obj) == WriteEntriesFrom(m, this, ObjTable[obj.v].entries, 1)

\* The loop of ensurePath from its i-th segment, current being the node reached.
EnsureFrom(m, current, segments, i) ==
  IF i > Len(segments) THEN Ok(m, StoreRef(current))
  ELSE IF ~allowedToRead(m.heap, current, segments[i])
    THEN Throw(m, PermissionDeniedError("read", segments[i]))
  ELSE Bind(Evaluate(m, current, segments[i]), LAMBDA e :
    IF e.val.t = "undefined"
      THEN IF ~allowedToWrite(e.m.heap, current, segments[i])
             THEN Throw(e.m, PermissionDeniedError("write", segments[i]))
             ELSE Bind(setField(NewStore(e.m, "rw"), current, segments[i],
                                StoreRef(Len(e.m.heap) + 1)),
                       LAMBDA f : EnsureFrom(f.m, Len(e.m.heap) + 1, segments, i + 1))
    ELSE IF e.val.t = "store"
      THEN EnsureFrom(e.m, e.val.v, segments, i + 1)
    ELSE IF isPlainJSONObject(e.val)
      THEN Bind(Promote(e.m, current, segments[i], e.val),
                LAMBDA p : EnsureFrom(p.m, p.val.v, segments, i + 1))
    ELSE Throw(e.m, PathTraversalError(segments[i])))

\* A variant that resolves every path to the node it is called on.
ensurePathHere(m, this, segments) == Ok(m, StoreRef(this))

ensurePath(m, this, segments) == EnsureFrom(m, this, segments, 1)

\* A variant that leaves the last segment among the segments to resolve.
PopNothing(all) == all

\* segments.pop() of an empty array yields undefined: no last key.
Pop(all) == IF Len(all) = 0 THEN << >> ELSE SubSeq(all, 1, Len(all) - 1)

write(m, this, path, value) ==
  Bind(ensurePath(m, this, Pop(Split(path))), LAMBDA parent :
    IF parent.val.t # "store"
      THEN Throw(parent.m, PathTraversalError(Join(Pop(Split(path)))))
    ELSE IF Len(Split(path)) = 0
      THEN Throw(parent.m, InvalidPathError)
    ELSE IF ~allowedToWrite(parent.m.heap, parent.val.v, Split(path)[Len(Split(path))])
      THEN Throw(parent.m,
                 PermissionDeniedError("write", Split(path)[Len(Split(path))]))
    ELSE Bind(setField(parent.m, parent.val.v, Split(path)[Len(Split(path))], value),
              LAMBDA s : Ok(Uncount(s.m, parent.val.v, Split(path)[Len(Split(path))]),
                            value)))

\* index counts from 1 here, from 0 in the source.
readSegments(m, segments, index, ctx) ==
  IF index > Len(segments) THEN Ok(m, StoreRef(ctx))
  ELSE IF ~allowedToRead(m.heap, ctx, segments[index])
    THEN Throw(m, PermissionDeniedError("read", segments[index]))
  ELSE Bind(Evaluate(m, ctx, segments[index]), LAMBDA e :
    IF index + 1 = Len(segments) + 1
      THEN IF isPlainJSONObject(e.val)
             THEN Promote(e.m, ctx, segments[index], e.val)
             ELSE Ok(e.m, e.val)
    ELSE IF e.val.t \in {"null", "undefined"} THEN Ok(e.m, Undefined)
    ELSE IF e.val.t = "store"
      THEN readSegments(e.m, segments, index + 1, e.val.v)
    ELSE IF isPlainJSONObject(e.val)
      THEN Bind(Promote(e.m, ctx, segments[index], e.val),
                LAMBDA p : readSegments(p.m, segments, index + 1, p.val.v))
    ELSE Throw(e.m, PathTraversalError(segments[index])))

read(m, this, path) == readSegments(m, Split(path), 1, this)

(***************************************************************************)
(* Store.entries: the snapshot, as the set of its members at every depth,  *)
(* each [path, val] with path the keys leading to it; a nested Store       *)
(* contributes Nested at its own key and its members below it.  A Store    *)
(* that contains itself makes the recursion overflow the stack.            *)
(***************************************************************************)
Nested == [t |-> "entries", v |-> 0]

\* A variant that lists every key, readable or not.
ListedAll(h, n) == DOMAIN h[n].data

\* The keys the loop does not skip: if (!this.allowedToRead(key)) continue;
Listed(h, n) == {k \in DOMAIN h[n].data : allowedToRead(h, n, k)}

RECURSIVE EntriesRec(_, _, _)
EntriesRec(h, n, active) ==
  IF n \in active THEN [overflow |-> TRUE, out |-> {}]
  ELSE
    LET keys == Listed(h, n)
        sub(k) == EntriesRec(h, getField(h, n, k).v, active \cup {n})
        member(k) ==
          LET val == getField(h, n, k)
          IN  IF val.t = "store"
                THEN {[path |-> << k >>, val |-> Nested]}
                     \cup {[path |-> << k >> \o x.path, val |-> x.val] : x \in sub(k).out}
              ELSE IF val.t # "function"
                THEN {[path |-> << k >>,
                       val |-> IF val.t # "undefined" THEN val ELSE Null]}
              ELSE {}
    IN  [overflow |-> \E k \in keys : getField(h, n, k).t = "store" /\ sub(k).overflow,
         out |-> UNION {member(k) : k \in keys}]

entries(h, n) == EntriesRec(h, n, {})

(***************************************************************************)
(* The state machine.  Node 1 is the root the caller holds; every          *)
(* operation is called on it.  last records the latest call and its        *)
(* outcome, prev the call before it.                                       *)
(***************************************************************************)
Root == 1

\* new Store(policy), for each of the four policies (store.ts:26-30).
StoreRoot(policy) ==
  << [defaultPolicy |-> policy, subtype |-> "Store", data |-> << >>] >>

\* new AdminStore(user) (adminStore.ts:7-23): super("none"), then the field
\* initialisers and this.user = user, each through the accessor's setField.
\* user is a Store constructed by the caller (node 2).
AdminRoot ==
  << [defaultPolicy |-> "none", subtype |-> "AdminStore",
      data |-> SetData(SetData(SetData(<< >>, kName, Str(2)), kCred, Fn(1)),
                       kUser, StoreRef(2))],
     [defaultPolicy |-> "rw", subtype |-> "UserStore", data |-> << >>] >>

NoField == << 0, << >> >>

NoCall == [op |-> "none", path |-> << >>, value |-> Undefined,
           err |-> NoError, ret |-> Undefined, dest |-> NoField,
           overflow |-> FALSE, out |-> {}]

InitWith(roots) ==
  /\ heap \in roots
  /\ evals = << >>
  /\ last = NoCall
  /\ prev = NoCall
  /\ nops = 0

M == [heap |-> heap, evals |-> evals]

\* The call returned or threw r: its effects stay, and the call is recorded.
Apply(r, op, path, value, dest) ==
  /\ Len(r.m.heap) <= MaxNodes
  /\ heap' = r.m.heap
  /\ evals' = r.m.evals
  /\ last' = [op |-> op, path |-> path, value |-> value, err |-> r.err,
              ret |-> r.val, dest |-> dest, overflow |-> FALSE, out |-> {}]
  /\ prev' = last
  /\ nops' = nops + 1

\* The field write(path, _) assigns on m: the last key on the node its
\* ensurePath resolves to; NoField when ensurePath throws.
Target(m, path) ==
  IF Failed(ensurePath(m, Root, Pop(Split(path)))) THEN NoField
  ELSE << ensurePath(m, Root, Pop(Split(path))).val.v,
          Split(path)[Len(Split(path))] >>

ReadOp(paths, bound) ==
  /\ nops < bound
  /\ \E p \in paths : Apply(read(M, Root, p), "read", p, Undefined, NoField)

WriteOp(paths, values, bound) ==
  /\ nops < bound
  /\ \E p \in paths, v \in values :
       Apply(write(M, Root, p, v), "write", p, v, Target(M, p))

\* write(p, s) for a Store s the caller holds: a node of the heap.
WriteRefOp(paths, nodes, bound) ==
  /\ nops < bound
  /\ \E p \in paths, n \in nodes :
       Apply(write(M, Root, p, StoreRef(n)), "write", p, StoreRef(n), Target(M, p))

\* write(p, new Store(policy)): the caller constructs the node it writes.
WriteNewOp(paths, policies, bound) ==
  /\ nops < bound
  /\ \E p \in paths, policy \in policies :
       Apply(write(NewStore(M, policy), Root, p, StoreRef(Len(heap) + 1)),
             "write", p, StoreRef(Len(heap) + 1), Target(NewStore(M, policy), p))

WriteEntriesOp(objs, bound) ==
  /\ nops < bound
  /\ \E o \in objs :
       Apply(writeEntries(M, Root, o), "writeEntries", << >>, o, NoField)

\* A variant that reads a field of the root while taking the snapshot.
EntriesOpForcing(bound) ==
  /\ nops < bound
  /\ \E k \in DOMAIN heap[Root].data :
       Apply(read(M, Root, k), "entries", << >>, Undefined, NoField)

EntriesOp(bound) ==
  /\ nops < bound
  /\ last' = [NoCall EXCEPT !.op = "entries",
                            !.overflow = entries(heap, Root).overflow,
                            !.out = entries(heap, Root).out]
  /\ prev' = last
  /\ nops' = nops + 1
  /\ UNCHANGED << heap, evals >>

(***************************************************************************)
(* The general specification: calls on a plain Store of each policy and    *)
(* on an AdminStore.                                                       *)
(***************************************************************************)
Paths ==
  IF heap[Root].subtype = "AdminStore"
    THEN { kUser, kName, kCred, kCred \o << Sep >> \o kUsername, kX }
    ELSE { kEmpty, kX, kX \o << Sep >>, kX \o << Sep >> \o kX }

Values == { Undefined, Null, Num(1), Sym, Arr(1), Obj(1), Obj(2), Fn(2) }

Init == InitWith({StoreRoot(p) : p \in Permissions} \cup {AdminRoot})

Read == ReadOp(Paths, MaxOps)
Write == WriteOp(Paths, Values, MaxOps)
WriteRef == WriteRefOp(Paths, 1..Len(heap), MaxOps)
WriteNew == WriteNewOp(Paths, {"none"}, MaxOps)
WriteEntries == WriteEntriesOp({Obj(1), Obj(2), Obj(6)}, MaxOps)
Entries == EntriesOp(MaxOps)

Next == Read \/ Write \/ WriteRef \/ WriteNew \/ WriteEntries \/ Entries

Spec == Init /\ [][Next]_vars

(***************************************************************************)
(* The specification of repeated traversal: three calls on a read-write    *)
(* Store, whose fields hold producers and plain objects.                   *)
(***************************************************************************)
DeepPaths == { kX, kX \o << Sep >> \o kX }

DeepValues ==
  { Null, Num(1), Sym, Arr(1), Obj(1), Obj(5), Obj(6), Fn(2), Fn(3) }

DeepInit == InitWith({StoreRoot("rw")})

DeepRead == ReadOp(DeepPaths, MaxDeepOps)
DeepWrite == WriteOp(DeepPaths, DeepValues, MaxDeepOps)

DeepNext == DeepRead \/ DeepWrite

SpecDeep == DeepInit /\ [][DeepNext]_vars

(***************************************************************************)
(* The specification of permission checks: two calls on a Store of each    *)
(* policy and on an AdminStore, with the values a traversal passes         *)
(* through: a plain object, a producer of a Store of policy none, a new    *)
(* Store of policy none, and the root itself.                              *)
(***************************************************************************)
PermPaths ==
  IF heap[Root].subtype = "AdminStore"
    THEN { kUser, kName \o << Sep >> \o kX, kCred \o << Sep >> \o kUsername }
    ELSE { kX, kX \o << Sep >> \o kX, kX \o << Sep >> \o kX \o << Sep >> \o kX }

PermValues == { Num(1), Obj(1), Fn(5) }

PermRead == ReadOp(PermPaths, MaxPermOps)
PermWrite == WriteOp(PermPaths, PermValues, MaxPermOps)
PermWriteRef == WriteRefOp(PermPaths, {Root}, MaxPermOps)
PermWriteNew == WriteNewOp(PermPaths, {"none"}, MaxPermOps)

PermNext == PermRead \/ PermWrite \/ PermWriteRef \/ PermWriteNew

SpecPerm == Init /\ [][PermNext]_vars

(***************************************************************************)
(* The specification of the admission guard: one write of a value of       *)
(* every kind.                                                             *)
(***************************************************************************)
GuardValues ==
  { Undefined, Null, Num(1), Str(1), Sym, Arr(1), Arr(2),
    Obj(1), Obj(2), Obj(3), Obj(4), Obj(5), Fn(2), Fn(3), Fn(4), Fn(5) }

GuardWrite == WriteOp(Paths, GuardValues, MaxGuardOps)
GuardWriteNew == WriteNewOp(Paths, Permissions, MaxGuardOps)

GuardNext == GuardWrite \/ GuardWriteNew

SpecGuard == Init /\ [][GuardNext]_vars

(***************************************************************************)
(* The specification of nested paths: three calls on an empty read-write   *)
(* Store, with paths of one, two and three segments.                       *)
(***************************************************************************)
TreePaths ==
  { kX, kX \o << Sep >> \o kUsername,
    kX \o << Sep >> \o kUsername \o << Sep >> \o kX }

TreeValues == { Num(1), Arr(1), Obj(1), Fn(2) }

TreeInit == InitWith({StoreRoot("rw")})

TreeRead == ReadOp(TreePaths, MaxTreeOps)
TreeWrite == WriteOp(TreePaths, TreeValues, MaxTreeOps)
TreeEntries == EntriesOp(MaxTreeOps)

TreeNext == TreeRead \/ TreeWrite \/ TreeEntries

SpecTree == TreeInit /\ [][TreeNext]_vars

(***************************************************************************)
(* The specification of write resolution: two writes on a Store of each    *)
(* policy and on an AdminStore, of the values a later write cannot pass    *)
(* through.                                                                *)
(***************************************************************************)
ResolveValues == { Null, Num(1), Arr(1) }

ResolveWrite == WriteOp(PermPaths, ResolveValues, MaxWriteOps)

ResolveNext == ResolveWrite

SpecResolve == Init /\ [][ResolveNext]_vars

(***************************************************************************)
(* Notions the properties are stated with.                                 *)
(***************************************************************************)
Nodes(h) == 1..Len(h)

ClaimKeys == { kUser, kName, kCred, kUsername, kX, kEmpty }

LastSeg(path) == Split(path)[Len(Split(path))]

\* The segments before the last one: the fields a write passes through.
Intermediate(segs) == SubSeq(segs, 1, Len(segs) - 1)

\* The fields a traversal of segs[i..] from node n visits in a step from heap
\* pre to heap post, in order, each << node, key >>: it moves on through a
\* field that held a node before the step, or holds one after it (a node the
\* step created there).
RECURSIVE Traversed(_, _, _, _, _)
Traversed(pre, post, n, segs, i) ==
  IF i > Len(segs) THEN << >>
  ELSE LET nxt == IF n <= Len(pre) /\ getField(pre, n, segs[i]).t = "store"
                    THEN getField(pre, n, segs[i])
                    ELSE getField(post, n, segs[i])
       IN  << << n, segs[i] >> >> \o
           (IF nxt.t = "store" THEN Traversed(pre, post, nxt.v, segs, i + 1)
            ELSE << >>)

\* The effective policy of key k on node n: the declared one, else the default.
Policy(h, n, k) ==
  IF getPermissionMetadata(h[n].subtype, k) \in Permissions
    THEN getPermissionMetadata(h[n].subtype, k)
    ELSE h[n].defaultPolicy

MayRead(h, n, k) == Policy(h, n, k) \in {"r", "rw"}
MayWrite(h, n, k) == Policy(h, n, k) \in {"w", "rw"}

\* The first field of hops that its node does not let read; 0 if none.
FirstUnreadable(h, hops) ==
  IF \E i \in 1..Len(hops) : ~MayRead(h, hops[i][1], hops[i][2])
    THEN CHOOSE i \in 1..Len(hops) :
           /\ ~MayRead(h, hops[i][1], hops[i][2])
           /\ \A j \in 1..(i - 1) : MayRead(h, hops[j][1], hops[j][2])
    ELSE 0

\* The Field Value union of the data model: absent, a node, a zero-argument
\* producer, or a JSON value (primitive, array of JSON values, object literal
\* of JSON values).
RECURSIVE IsJSON(_)
IsJSON(x) ==
  \/ x.t \in {"null", "string", "number", "boolean"}
  \/ x.t = "array" /\ \A i \in 1..Len(ArrTable[x.v]) : IsJSON(ArrTable[x.v][i])
  \/ /\ x.t = "object"
     /\ ObjTable[x.v].proto = "Object"
     /\ \A i \in 1..Len(ObjTable[x.v].entries) : IsJSON(ObjTable[x.v].entries[i].v)

InFieldValueUnion(x) ==
  \/ x.t \in {"undefined", "store"}
  \/ x.t = "function" /\ FnTable[x.v].length = 0
  \/ IsJSON(x)

(***************************************************************************)
(* C6.  The effective policy of a key on a node is the policy declared for *)
(* it on the node's subtype, if any, and the node's default policy         *)
(* otherwise; reading is allowed exactly under r and rw, writing exactly   *)
(* under w and rw, whatever the node holds and whatever was called before. *)
(***************************************************************************)
C6_EffectivePolicy ==
  \A n \in Nodes(heap), k \in ClaimKeys :
    /\ getPermissionForKey(heap, n, k) = Policy(heap, n, k)
    /\ allowedToRead(heap, n, k) = (Policy(heap, n, k) \in {"r", "rw"})
    /\ allowedToWrite(heap, n, k) = (Policy(heap, n, k) \in {"w", "rw"})

\* On an AdminStore (default none) the declared rw field was written and read.
C6_Witness ==
  /\ heap[Root].subtype = "AdminStore"
  /\ prev.op = "write" /\ prev.path = kCred /\ prev.err = NoError
  /\ last.op = "read" /\ last.path = kCred /\ last.err = NoError
  /\ Policy(heap, Root, kX) = "none" /\ Policy(heap, Root, kCred) = "rw"

(***************************************************************************)
(* C7.  A write whose path ends in an empty segment ("" or "a:") raises    *)
(* Invalid Path, wherever permissions and the fields on the way let the    *)
(* write reach its last segment.                                           *)
(***************************************************************************)
C7_EmptyTrailingSegmentRejected ==
  (/\ last.op = "write"
   /\ LastSeg(last.path) = << >>
   /\ last.err.name \notin {"PermissionDeniedError", "PathTraversalError"})
    => last.err.name = "InvalidPathError"

(***************************************************************************)
(* C8.  On a permitted, traversable path, write raises Invalid Value for   *)
(* every value outside the Field Value union and accepts every value in    *)
(* it.                                                                     *)
(***************************************************************************)
C8_GuardRejectsOutsideUnion ==
  (/\ last.op = "write"
   /\ last.err.name \notin {"PermissionDeniedError", "PathTraversalError"}
   /\ LastSeg(last.path) # << >>)
    => IF InFieldValueUnion(last.value) THEN last.err = NoError
       ELSE last.err.name = "InvalidValueError"

(***************************************************************************)
(* C2.  A write that raises leaves every field of every node as it was.    *)
(***************************************************************************)
C2_FailedWriteMutatesNothing ==
  [][(last'.op = "write" /\ last'.err # NoError)
       => \A n \in Nodes(heap) : heap'[n] = heap[n]]_vars

(***************************************************************************)
(* C10.  The result of entries() holds, at every depth, no key whose field *)
(* holds an unevaluated producer and no key its node does not let read.    *)
(***************************************************************************)
C10_EntriesOmitsProducersAndUnreadable ==
  (last.op = "entries" /\ ~last.overflow) =>
    \A x \in last.out :
      LET hops == Traversed(heap, heap, Root, x.path, 1)
      IN  /\ Len(hops) = Len(x.path)
          /\ \A i \in 1..Len(hops) :
               /\ MayRead(heap, hops[i][1], hops[i][2])
               /\ getField(heap, hops[i][1], hops[i][2]).t # "function"

\* entries() on an AdminStore: user is listed, the unreadable name and the
\* unevaluated getCredentials are not.
C10_Witness ==
  /\ last.op = "entries"
  /\ heap[Root].subtype = "AdminStore"
  /\ getField(heap, Root, kCred).t = "function"
  /\ getField(heap, Root, kName).t = "string"
  /\ {x.path : x \in last.out} = { << kUser >> }

(***************************************************************************)
(* C5.  Capability at every hop.  A read that returns has found every      *)
(* field it visited readable on its node; a write that returns has found   *)
(* every intermediate field readable and the last key writable on the      *)
(* node it resolved to, where it stored the value.  A call that meets a    *)
(* field it may not use raises Permission Denied with the kind and the     *)
(* key of the first such field, and Permission Denied is raised for no     *)
(* other reason.                                                           *)
(***************************************************************************)
Readable(h, hops) ==
  \A i \in 1..Len(hops) : MayRead(h, hops[i][1], hops[i][2])

\* The node a traversal of all of segs ends in; 0 if it stops before.
RECURSIVE Resolved(_, _, _, _, _)
Resolved(pre, post, n, segs, i) ==
  IF i > Len(segs) THEN n
  ELSE LET nxt == IF n <= Len(pre) /\ getField(pre, n, segs[i]).t = "store"
                    THEN getField(pre, n, segs[i])
                    ELSE getField(post, n, segs[i])
       IN  IF nxt.t = "store" THEN Resolved(pre, post, nxt.v, segs, i + 1) ELSE 0

C5_Step ==
  LET segs == Split(last'.path)
      inter == IF last'.op = "write" THEN Intermediate(segs) ELSE segs
      hops == Traversed(heap, heap', Root, inter, 1)
      bad == FirstUnreadable(heap', hops)
      tail == IF Len(hops) = 0 THEN NoField ELSE hops[Len(hops)]
      dst == Resolved(heap, heap', Root, inter, 1)
      key == segs[Len(segs)]
  IN  /\ (last'.op = "read" /\ last'.err = NoError) => Readable(heap', hops)
      /\ (last'.op = "write" /\ last'.err = NoError) =>
           /\ Readable(heap', hops)
           /\ dst # 0
           /\ MayWrite(heap', dst, key)
           /\ getField(heap', dst, key) = last'.value
      /\ (last'.op \in {"read", "write"} /\ bad # 0) =>
           last'.err = PermissionDeniedError("read", hops[bad][2])
      /\ (last'.op = "write" /\ bad = 0 /\ dst # 0
          /\ ~MayWrite(heap', dst, key)) =>
           last'.err = PermissionDeniedError("write", key)
      /\ (last'.op \in {"read", "write"}
          /\ last'.err.name = "PermissionDeniedError") =>
           \/ /\ last'.err.kind = "read"
              /\ bad # 0
              /\ last'.err.at = hops[bad][2]
           \/ /\ last'.err.kind = "write"
              /\ last'.op = "write"
              /\ bad = 0
              /\ \/ /\ dst # 0
                    /\ last'.err.at = key
                    /\ ~MayWrite(heap', dst, key)
                 \/ /\ dst = 0
                    /\ last'.err.at = tail[2]
                    /\ getField(heap', tail[1], tail[2]).t = "undefined"
                    /\ ~MayWrite(heap', tail[1], tail[2])

C5_CapabilityAtEveryHop == [][C5_Step]_vars

\* On an AdminStore, write("user", v) was refused with {write, user} and
\* read("user") then returned the node.
C5_Witness ==
  /\ heap[Root].subtype = "AdminStore"
  /\ prev.op = "write" /\ prev.path = kUser
  /\ prev.err = PermissionDeniedError("write", kUser)
  /\ last.op = "read" /\ last.path = kUser
  /\ last.err = NoError /\ last.ret = StoreRef(2)

(***************************************************************************)
(* C4.  Permission before type and shape.  When a read reaches a field its *)
(* node does not let read, it raises Permission Denied {read, key}         *)
(* whatever that field holds: the store with any other value under the     *)
(* key gives the same outcome, the field is left as it was, and what it    *)
(* holds is not invoked.  The fields visited before it may have been       *)
(* memoized or promoted on the way, in the same way in both stores.        *)
(***************************************************************************)
Variants == { Undefined, Null, Num(1), Arr(1), Obj(1), StoreRef(Root), Fn(2), Fn(5) }

WithField(h, n, k, x) == [h EXCEPT ![n].data = SetData(@, k, x)]

C4_Denied(unchanged) ==
  LET hops == Traversed(heap, heap', Root, Split(last'.path), 1)
      bad == FirstUnreadable(heap', hops)
      n == hops[bad][1]
      k == hops[bad][2]
  IN  (last'.op = "read" /\ bad # 0) =>
        /\ last'.err = PermissionDeniedError("read", k)
        /\ Evals(evals', n, k) = Evals(evals, n, k)
        /\ unchanged => heap' = heap
        /\ n <= Len(heap) =>
             /\ getField(heap', n, k) = getField(heap, n, k)
             /\ \A x \in Variants :
                  LET other == read([M EXCEPT !.heap = WithField(heap, n, k, x)],
                                    Root, last'.path)
                  IN  /\ other.err = last'.err
                      /\ other.m.heap = WithField(heap', n, k, x)
                      /\ other.m.evals = evals'

C4_DeniedReadIgnoresValue == [][C4_Denied(FALSE)]_vars

\* C4 as made: a read that reaches a field it may not read changes nothing
\* in the store, whatever the field holds.
C4_DeniedReadChangesNothing == [][C4_Denied(TRUE)]_vars

\* read("name:x") on an AdminStore, name being declared none, was refused.
C4_Witness ==
  /\ heap[Root].subtype = "AdminStore"
  /\ last.op = "read" /\ last.path = kName \o << Sep >> \o kX
  /\ last.err = PermissionDeniedError("read", kName)
  /\ getField(heap, Root, kName) = Str(2)

(***************************************************************************)
(* C1.  Round trip.  After write(p, v) has returned, read(p) on the same   *)
(* root returns v, for v a primitive, an array, a node or absent, p        *)
(* readable at its last key, and the field written not one of the fields   *)
(* p itself passes through.                                                *)
(***************************************************************************)
Eager == {"undefined", "null", "number", "string", "boolean", "array", "store"}

WrittenThenRead ==
  /\ prev.op = "write" /\ prev.err = NoError
  /\ last.op = "read" /\ last.path = prev.path
  /\ MayRead(heap, prev.dest[1], prev.dest[2])

PassesThrough(h, path, field) ==
  \E i \in 1..Len(Traversed(h, h, Root, Intermediate(Split(path)), 1)) :
    Traversed(h, h, Root, Intermediate(Split(path)), 1)[i] = field

C3_ProducerRunsAtMostOnce ==
  /\ \A f \in DOMAIN evals : evals[f] <= 1
  /\ (prev.op = "read" /\ last.op = "read" /\ last.path = prev.path)
       => (last.ret = prev.ret /\ last.err = prev.err)

(***************************************************************************)
(* C9.  Idempotent promotion.  A read replaces every plain object it       *)
(* meets in a readable field by a new node, returning that node when the   *)
(* field is the last of the path; and a field that holds a node keeps that *)
(* very node over every read and every write that does not assign the      *)
(* field.                                                                  *)
(***************************************************************************)
C9_Step ==
  LET hops == Traversed(heap, heap', Root, Split(last'.path), 1)
  IN  /\ (last'.op = "read" /\ Readable(heap', hops)) =>
           \A i \in 1..Len(hops) :
             (/\ hops[i][1] <= Len(heap)
              /\ getField(heap, hops[i][1], hops[i][2]).t = "object") =>
               /\ getField(heap', hops[i][1], hops[i][2]).t = "store"
               /\ getField(heap', hops[i][1], hops[i][2]).v > Len(heap)
               /\ i = Len(Split(last'.path)) =>
                    /\ last'.err = NoError
                    /\ last'.ret = getField(heap', hops[i][1], hops[i][2])
      /\ \A n \in Nodes(heap) : \A k \in DOMAIN heap[n].data :
           (/\ heap[n].data[k].t = "store"
            /\ ~(last'.op = "write" /\ last'.err = NoError
                 /\ last'.dest = << n, k >>)) =>
             getField(heap', n, k) = heap[n].data[k]

C9_PromotionIsIdempotent == [][C9_Step]_vars

(***************************************************************************)
(* C11.  On an empty read-write root, write(k1:...:kn, v) of a primitive   *)
(* or an array v returns, having created n-1 nodes, one below the other;   *)
(* read of the same path then returns v, and entries() on the root, asked  *)
(* right after the write or after that read, returns the nested mapping    *)
(* {k1: {... {kn: v}}}.                                                    *)
(***************************************************************************)
\* The snapshot {k1: {... {kn: v}}}: a nested node at every proper prefix.
NestedMapping(segs, v) ==
  {[path |-> SubSeq(segs, 1, j), val |-> IF j = Len(segs) THEN v ELSE Nested] :
     j \in 1..Len(segs)}

C11_Step(vals) ==
  /\ (nops = 0 /\ last'.op = "write" /\ last'.value \in vals) =>
       /\ last'.err = NoError
       /\ Len(heap') = Len(heap) + Len(Split(last'.path)) - 1
       /\ Resolved(heap', heap', Root, Intermediate(Split(last'.path)), 1)
            = Len(heap')
  /\ (nops = 1 /\ last.op = "write" /\ last.value \in vals
      /\ last'.op = "read" /\ last'.path = last.path) =>
       (last'.err = NoError /\ last'.ret = last.value)
  /\ (nops = 1 /\ last.op = "write" /\ last.value \in vals
      /\ last'.op = "entries") =>
       (~last'.overflow /\ last'.out = NestedMapping(Split(last.path), last.value))
  /\ (nops = 2 /\ prev.op = "write" /\ prev.value \in vals
      /\ last.op = "read" /\ last.path = prev.path /\ last'.op = "entries") =>
       (~last'.overflow /\ last'.out = NestedMapping(Split(prev.path), prev.value))

ErrorKinds ==
  { "InvalidPermissionError", "PermissionDeniedError", "PathTraversalError",
    "InvalidValueError", "InvalidPathError" }

C12_EveryCallTerminates ==
  /\ last.err = NoError \/ last.err.name \in ErrorKinds
  /\ last.op = "entries" => ~last.overflow

(***************************************************************************)
(* C13.  The nodes form a tree: no node is a descendant of itself and no   *)
(* node is held by two different fields.                                   *)
(***************************************************************************)
\* The fields that hold node c.
Holders(h, c) ==
  {f \in Nodes(h) \X ClaimKeys :
     f[2] \in DOMAIN h[f[1]].data /\ h[f[1]].data[f[2]] = StoreRef(c)}

\* The nodes held by a field of a node of set.
Children(h, set) == {c \in Nodes(h) : \E f \in Holders(h, c) : f[1] \in set}

\* The nodes reached from set in at most i steps down, at least one.
RECURSIVE Descendants(_, _, _)
Descendants(h, set, i) ==
  IF i = 0 THEN {}
  ELSE Children(h, set) \cup Descendants(h, Children(h, set), i - 1)

C13_NodesFormATree ==
  \A n \in Nodes(heap) :
    /\ n \notin Descendants(heap, {n}, Len(heap))
    /\ Cardinality(Holders(heap, n)) <= 1

(***************************************************************************)
(* C14.  entries() has no effect on the store: every field of every node   *)
(* holds after the call what it held before, no node is created, and no    *)
(* producer is invoked.                                                    *)
(***************************************************************************)
C14_EntriesChangesNothing ==
  [][last'.op = "entries" =>
       /\ Len(heap') = Len(heap)
       /\ \A n \in Nodes(heap) : heap'[n] = heap[n]
       /\ \A n \in Nodes(heap), k \in ClaimKeys :
            Evals(evals', n, k) = Evals(evals, n, k)]_vars

\* write("x", producer) on a read-write Store, then entries(): the field
\* still holds the producer, which has not run.
C14_Witness ==
  /\ prev.op = "write" /\ prev.path = kX /\ prev.value = Fn(2)
  /\ last.op = "entries" /\ last.out = {}
  /\ MayRead(heap, Root, kX)
  /\ getField(heap, Root, kX) = Fn(2)
  /\ Evals(evals, Root, kX) = 0

(***************************************************************************)
(* C15.  writeEntries(mapping) does what one write per key of the mapping  *)
(* does, in the order of the keys: when the write of a key raises, the     *)
(* call raises that error, the effects of the writes before it stay, and   *)
(* no later key is written.                                                *)
(***************************************************************************)
\* The outcome of the writes of the first j keys, one after the other, the
\* first that raises being the last that is made.
RECURSIVE WritesUpTo(_, _, _)
WritesUpTo(m, ents, j) ==
  IF j = 0 THEN Ok(m, Undefined)
  ELSE Bind(WritesUpTo(m, ents, j - 1),
            LAMBDA a : write(a.m, Root, ents[j].k, ents[j].v))

C15_Step ==
  last'.op = "writeEntries" =>
    /\ heap' = WritesUpTo(M, ObjTable[last'.value.v].entries,
                          Len(ObjTable[last'.value.v].entries)).m.heap
    /\ last'.err = WritesUpTo(M, ObjTable[last'.value.v].entries,
                              Len(ObjTable[last'.value.v].entries)).err
    /\ \A j \in 1..Len(ObjTable[last'.value.v].entries) :
         Failed(WritesUpTo(M, ObjTable[last'.value.v].entries, j)) =>
           /\ last'.err = WritesUpTo(M, ObjTable[last'.value.v].entries, j).err
           /\ heap' = WritesUpTo(M, ObjTable[last'.value.v].entries, j).m.heap

C15_WriteEntriesInOrder == [][C15_Step]_vars

\* writeEntries({x: 1, "x:x": 2, username: "user1"}) on an empty read-write
\* Store: the second write raises, x holds 1 and username was not written.
C15_Witness ==
  /\ nops = 1 /\ last.op = "writeEntries" /\ last.value = Obj(6)
  /\ last.err.name = "PathTraversalError"
  /\ heap[Root].defaultPolicy = "rw"
  /\ DOMAIN heap[Root].data = { kX }
  /\ getField(heap, Root, kX) = Num(1)

(***************************************************************************)
(* C16.  Promotion keeps the content and is shallow.  A read whose last    *)
(* field holds an object literal returns a new node of default policy rw,  *)
(* whose field names are the keys of the object, a key that contains the   *)
(* separator being one name, and whose fields hold the values the object   *)
(* has under them, unpromoted; and the promotion does not raise.           *)
(***************************************************************************)
KeysOf(o) == {ObjTable[o.v].entries[i].k : i \in 1..Len(ObjTable[o.v].entries)}

ValueOf(o, key) ==
  ObjTable[o.v].entries[CHOOSE i \in 1..Len(ObjTable[o.v].entries) :
                          ObjTable[o.v].entries[i].k = key].v

C16_Step ==
  LET hops == Traversed(heap, heap', Root, Split(last'.path), 1)
      f == hops[Len(hops)]
      o == getField(heap, f[1], f[2])
      c == last'.ret.v
  IN  (/\ last'.op = "read"
       /\ Len(hops) = Len(Split(last'.path))
       /\ Readable(heap', hops)
       /\ f[1] <= Len(heap)
       /\ o.t = "object" /\ ObjTable[o.v].proto = "Object") =>
        /\ last'.err = NoError
        /\ last'.ret.t = "store" /\ c > Len(heap)
        /\ getField(heap', f[1], f[2]) = last'.ret
        /\ heap'[c].defaultPolicy = "rw"
        /\ DOMAIN heap'[c].data = KeysOf(o)
        /\ \A key \in KeysOf(o) : heap'[c].data[key] = ValueOf(o, key)

C16_PromotionPreservesContent == [][C16_Step]_vars

(***************************************************************************)
(* C17.  A read that reaches a readable field which is not the last of its *)
(* path: returns absent, leaving the field as it is, when the field holds  *)
(* nothing or null; raises Path Traversal when it holds a primitive or an  *)
(* array; and goes on into the node when it holds a node or an object      *)
(* literal.                                                                *)
(***************************************************************************)
C17_Step ==
  LET segs == Split(last'.path)
      hops == Traversed(heap, heap', Root, segs, 1)
      f == hops[Len(hops)]
      val == getField(heap, f[1], f[2])
  IN  (/\ last'.op = "read"
       /\ Len(hops) < Len(segs)
       /\ Readable(heap', hops)
       /\ f[1] <= Len(heap)) =>
        /\ val.t \in {"undefined", "null"} =>
             /\ last'.err = NoError /\ last'.ret = Undefined
             /\ getField(heap', f[1], f[2]) = val
        /\ val.t \in {"number", "string", "boolean", "array"} =>
             last'.err.name = "PathTraversalError"
        /\ val.t # "object" \/ ObjTable[val.v].proto # "Object"

C17_ReadAtIntermediateSegment == [][C17_Step]_vars

(***************************************************************************)
(* C18.  A write that meets an absent field before the last segment of its *)
(* path puts a new empty node of default policy rw there only if the       *)
(* field is readable and writable on its node; if it is readable and not   *)
(* writable the write raises Permission Denied {write, key} and the field  *)
(* stays absent; a field that holds a primitive or an array makes the      *)
(* write raise Path Traversal.                                             *)
(***************************************************************************)
C18_Step ==
  LET hops == Traversed(heap, heap', Root, Intermediate(Split(last'.path)), 1)
  IN  last'.op = "write" =>
        \A i \in 1..Len(hops) :
          LET n == hops[i][1]
              k == hops[i][2]
              reached == Readable(heap', SubSeq(hops, 1, i))
          IN  n <= Len(heap) =>
                /\ (/\ getField(heap, n, k).t = "undefined"
                    /\ getField(heap', n, k).t = "store") =>
                     /\ MayRead(heap', n, k) /\ MayWrite(heap', n, k)
                     /\ getField(heap', n, k).v > Len(heap)
                     /\ heap'[getField(heap', n, k).v].defaultPolicy = "rw"
                     /\ heap'[getField(heap', n, k).v].subtype = "Store"
                /\ (/\ getField(heap, n, k).t = "undefined"
                    /\ reached /\ MayWrite(heap', n, k)) =>
                     getField(heap', n, k).t = "store"
                /\ (/\ getField(heap, n, k).t = "undefined"
                    /\ reached /\ ~MayWrite(heap', n, k)) =>
                     /\ last'.err = PermissionDeniedError("write", k)
                     /\ getField(heap', n, k) = Undefined
                /\ (/\ getField(heap, n, k).t \in
                         {"null", "number", "string", "boolean", "array"}
                    /\ reached) =>
                     last'.err.name = "PathTraversalError"

C18_WriteAtIntermediateSegment == [][C18_Step]_vars

\* write("x:x", v) on an empty Store of policy r: x is readable, absent and
\* not writable; the write was refused and created nothing.
C18_Witness ==
  /\ nops = 1 /\ last.op = "write" /\ last.path = kX \o << Sep >> \o kX
  /\ last.err = PermissionDeniedError("write", kX)
  /\ heap[Root].defaultPolicy = "r"
  /\ Len(heap) = 1 /\ heap[Root].data = << >>

(***************************************************************************)
(* C19.  Every value a call puts in a field has passed the admission       *)
(* guard; a write whose value the guard rejects raises Invalid Value; and  *)
(* whenever Invalid Value is raised the field the call had reached keeps   *)
(* what it held: a producer whose result the guard rejects stays in its    *)
(* field.                                                                  *)
(***************************************************************************)
C19_Step ==
  LET hops == Traversed(heap, heap', Root, Split(last'.path), 1)
      f == hops[Len(hops)]
  IN  /\ \A n \in Nodes(heap') : \A k \in DOMAIN heap'[n].data :
           (\/ n > Len(heap)
            \/ k \notin DOMAIN heap[n].data
            \/ heap'[n].data[k] # heap[n].data[k]) =>
             isStoreValue(heap', heap'[n].data[k])
      /\ (/\ last'.op = "write" /\ last'.dest # NoField
          /\ MayWrite(heap', last'.dest[1], last'.dest[2])
          /\ ~isStoreValue(heap, last'.value)) =>
           last'.err.name = "InvalidValueError"
      /\ (/\ last'.op \in {"read", "write"}
          /\ last'.err.name = "InvalidValueError"
          /\ f[1] <= Len(heap)) =>
           getField(heap', f[1], f[2]) = getField(heap, f[1], f[2])
      /\ \A n \in Nodes(heap) : \A k \in DOMAIN heap[n].data :
           (/\ heap[n].data[k].t = "function"
            /\ Evals(evals', n, k) > Evals(evals, n, k)
            /\ ~isStoreValue(heap, FnTable[heap[n].data[k].v].arg)) =>
             /\ last'.err.name = "InvalidValueError"
             /\ heap'[n].data[k] = heap[n].data[k]

C19_EveryChangePassesTheGuard == [][C19_Step]_vars

\* write("x", producer of a symbol), then read("x"): the read raised
\* Invalid Value and x still holds the producer.
C19_Witness ==
  /\ prev.op = "write" /\ prev.path = kX /\ prev.value = Fn(3)
  /\ prev.err = NoError
  /\ last.op = "read" /\ last.path = kX
  /\ last.err.name = "InvalidValueError"
  /\ getField(heap, Root, kX) = Fn(3)
  /\ Evals(evals, Root, kX) = 1

(***************************************************************************)
(* C20.  A Path Traversal error raised by read or write carries the path   *)
(* so far: the segments of the call's path, joined by the separator, from  *)
(* the first up to the one whose value could not be traversed.             *)
(***************************************************************************)
C20_Step ==
  LET segs == Split(last'.path)
      hops == Traversed(heap, heap', Root,
                        IF last'.op = "write" THEN Intermediate(segs) ELSE segs, 1)
  IN  (/\ last'.op \in {"read", "write"}
       /\ last'.err.name = "PathTraversalError") =>
        last'.err.at = Join(SubSeq(segs, 1, Len(hops)))

C20_PathTraversalCarriesPathSoFar == [][C20_Step]_vars
====
